---- MODULE Spec2Model ----
(***************************************************************************)
(* Availability interval engine of the scheduling API.                     *)
(*                                                                         *)
(* Instants are seconds counted from an instant that lies on a full hour   *)
(* (UTC), so that the minute-of-hour of an instant t is (t \div 60) % 60.  *)
(* A TimeInterval is a sequence of instants (a Go slice of time.Time): a   *)
(* well-formed one has two elements, <<start, end>>.                       *)
(***************************************************************************)
EXTENDS Integers, Sequences, FiniteSets, TLC

VARIABLES
  input, ops, output, err, prev,   \* the helper specification: a list and the helpers applied to it
  window,                          \* the helper specification: the interval removed from the list
  availability,                    \* the committed rows of table availability
  tx,                              \* per request worker: the UpdateAvailability request in flight
  response,                        \* the HTTP response written by the latest step, if any
  users,                           \* the committed role of each principal's active row of table users
  classes,                         \* the committed class IDs of table classes
  calls,                           \* per request worker: the user or class handler in flight
  leaks,                           \* the transactions a handler returned without ending
  returned                         \* the latest return of the auth middleware or of a handler

helperVars == <<input, ops, output, err, prev, window>>
serviceVars == <<availability, tx, response>>
accountVars == <<users, classes, calls, leaks, returned>>
vars == <<input, ops, output, err, prev, window, availability, tx, response,
          users, classes, calls, leaks, returned>>

(***************************************************************************)
(* Bounds of the helper specification.                                     *)
(***************************************************************************)
MaxQuarters == 2
MaxIntervals == 2
MaxChunks == 3

\* chunkDuration := 15 * time.Minute, in seconds
chunkDuration == 900

\* time.Time.Minute(): the minute offset within the hour, 0..59
Minute(t) == (t \div 60) % 60

\* 00:45:00, 01:00:00, 01:15:00, ...: instants on a quarter-hour boundary
AlignedInstants == {2700 + k * chunkDuration : k \in 0..MaxQuarters}

\* 00:07:00 and 00:50:00 (minute off the boundary), 00:45:30 (second off it)
OffInstants == {420, 3000, 2730}

Instants == AlignedInstants \cup OffInstants

(***************************************************************************)
(* helpers.go: convertIntervalsIntoChunks                                  *)
(***************************************************************************)
ErrNone == "nil"
ErrMalformed == "interval must have at least 2 time values"
ErrStart == "start time must be on 00, 15, 30, or 45 minutes"
ErrEnd == "end time must be on 00, 15, 30, or 45 minutes"

\* a walk that also steps when current equals end
RECURSIVE walkChunksInclusive(_, _)
walkChunksInclusive(current, end) ==
  IF current <= end
  THEN <<<<current, current + chunkDuration>>>>
         \o walkChunksInclusive(current + chunkDuration, end)
  ELSE <<>>

\* a walk that appends the first chunk before it compares current with end
RECURSIVE walkChunksDoWhile(_, _)
walkChunksDoWhile(current, end) ==
  <<<<current, current + chunkDuration>>>>
    \o (IF current + chunkDuration < end
        THEN walkChunksDoWhile(current + chunkDuration, end)
        ELSE <<>>)

\* the inner loop: for current.Before(end) { append [current, current+15m) }
RECURSIVE walkChunks(_, _)
walkChunks(current, end) ==
  IF current < end
  THEN <<<<current, current + chunkDuration>>>>
         \o walkChunks(current + chunkDuration, end)
  ELSE <<>>

\* an outer loop that leaves out the check of the end time
RECURSIVE convertFromNoEndCheck(_, _, _)
convertFromNoEndCheck(intervals, i, chunks) ==
  IF i > Len(intervals)
  THEN [err |-> ErrNone, chunks |-> chunks]
  ELSE LET interval == intervals[i] IN
       IF Len(interval) < 2
       THEN [err |-> ErrMalformed, chunks |-> <<>>]
       ELSE IF Minute(interval[1]) % 15 # 0
       THEN [err |-> ErrStart, chunks |-> <<>>]
       ELSE convertFromNoEndCheck(intervals, i + 1,
                        chunks \o walkChunks(interval[1], interval[2]))

\* an outer loop that asks for exactly two time values
RECURSIVE convertFromExactlyTwo(_, _, _)
convertFromExactlyTwo(intervals, i, chunks) ==
  IF i > Len(intervals)
  THEN [err |-> ErrNone, chunks |-> chunks]
  ELSE LET interval == intervals[i] IN
       IF Len(interval) # 2
       THEN [err |-> ErrMalformed, chunks |-> <<>>]
       ELSE IF Minute(interval[1]) % 15 # 0
       THEN [err |-> ErrStart, chunks |-> <<>>]
       ELSE IF Minute(interval[2]) % 15 # 0
       THEN [err |-> ErrEnd, chunks |-> <<>>]
       ELSE convertFromExactlyTwo(intervals, i + 1,
                        chunks \o walkChunks(interval[1], interval[2]))

\* the outer loop from interval i on, chunks being those appended so far
RECURSIVE convertFrom(_, _, _)
convertFrom(intervals, i, chunks) ==
  IF i > Len(intervals)
  THEN [err |-> ErrNone, chunks |-> chunks]
  ELSE LET interval == intervals[i] IN
       IF Len(interval) < 2
       THEN [err |-> ErrMalformed, chunks |-> <<>>]
       ELSE IF Minute(interval[1]) % 15 # 0
       THEN [err |-> ErrStart, chunks |-> <<>>]
       ELSE IF Minute(interval[2]) % 15 # 0
       THEN [err |-> ErrEnd, chunks |-> <<>>]
       ELSE convertFrom(intervals, i + 1,
                        chunks \o walkChunks(interval[1], interval[2]))

convertIntervalsIntoChunks(intervals) == convertFrom(intervals, 1, <<>>)

(***************************************************************************)
(* helpers.go: sortChunks, mergeOverlappingChunks,                         *)
(* groupConsecutiveMergedChunks, groupConsecutiveChunks                    *)
(***************************************************************************)
swapChunks(chunks, i, j) ==
  [chunks EXCEPT ![i] = chunks[j], ![j] = chunks[i]]

\* for j := i + 1; j < len(chunks); j++ { if chunks[i][0].After(chunks[j][0]) swap }
RECURSIVE sortInner(_, _, _)
sortInner(chunks, i, j) ==
  IF j > Len(chunks)
  THEN chunks
  ELSE sortInner(IF chunks[i][1] > chunks[j][1]
                 THEN swapChunks(chunks, i, j)
                 ELSE chunks,
                 i, j + 1)

\* for i := 0; i < len(chunks)-1; i++
RECURSIVE sortOuter(_, _)
sortOuter(chunks, i) ==
  IF i > Len(chunks) - 1
  THEN chunks
  ELSE sortOuter(sortInner(chunks, i, i + 1), i + 1)

sortChunksUnsorted(chunks) == chunks

sortChunks(chunks) == sortOuter(chunks, 1)

\* the loop of mergeOverlappingChunks from index i on
RECURSIVE mergeFrom(_, _, _, _)
mergeFrom(chunks, i, current, merged) ==
  IF i > Len(chunks)
  THEN Append(merged, current)
  ELSE LET next == chunks[i] IN
       IF ~(current[2] < next[1])
       THEN mergeFrom(chunks, i + 1,
                      IF next[2] > current[2]
                      THEN <<current[1], next[2]>>
                      ELSE current,
                      merged)
       ELSE mergeFrom(chunks, i + 1, <<next[1], next[2]>>,
                      Append(merged, current))

\* a merge pass that was left out: the chunks come back as they are
mergeOverlappingChunksSkipped(chunks) == chunks

\* the loop of a merge that takes the later chunk's end without comparing
RECURSIVE mergeFromLastEnd(_, _, _, _)
mergeFromLastEnd(chunks, i, current, merged) ==
  IF i > Len(chunks)
  THEN Append(merged, current)
  ELSE LET next == chunks[i] IN
       IF ~(current[2] < next[1])
       THEN mergeFromLastEnd(chunks, i + 1, <<current[1], next[2]>>, merged)
       ELSE mergeFromLastEnd(chunks, i + 1, <<next[1], next[2]>>,
                             Append(merged, current))

mergeOverlappingChunksLastEnd(chunks) ==
  IF Len(chunks) = 0
  THEN <<>>
  ELSE mergeFromLastEnd(chunks, 2, <<chunks[1][1], chunks[1][2]>>, <<>>)

\* the loop of a merge that closes a range after joining two chunks and
\* starts the next range at the chunk that follows
RECURSIVE mergeFromPairs(_, _, _, _)
mergeFromPairs(chunks, i, current, merged) ==
  IF i > Len(chunks)
  THEN Append(merged, current)
  ELSE LET next == chunks[i]
           joined == IF next[2] > current[2] THEN <<current[1], next[2]>> ELSE current
       IN
       IF ~(current[2] < next[1])
       THEN IF i + 1 > Len(chunks)
            THEN Append(merged, joined)
            ELSE mergeFromPairs(chunks, i + 2,
                                <<chunks[i + 1][1], chunks[i + 1][2]>>,
                                Append(merged, joined))
       ELSE mergeFromPairs(chunks, i + 1, <<next[1], next[2]>>,
                           Append(merged, current))

mergeOverlappingChunksPairs(chunks) ==
  IF Len(chunks) = 0
  THEN <<>>
  ELSE mergeFromPairs(chunks, 2, <<chunks[1][1], chunks[1][2]>>, <<>>)

mergeOverlappingChunks(chunks) ==
  IF Len(chunks) = 0
  THEN <<>>
  ELSE mergeFrom(chunks, 2, <<chunks[1][1], chunks[1][2]>>, <<>>)

\* the loop of groupConsecutiveMergedChunks from index i on
RECURSIVE groupFrom(_, _, _, _, _)
groupFrom(chunks, i, start, end, grouped) ==
  IF i > Len(chunks)
  THEN Append(grouped, <<start, end>>)
  ELSE LET currentStart == chunks[i][1]
           currentEnd == chunks[i][2]
       IN IF currentStart = end
          THEN groupFrom(chunks, i + 1, start, currentEnd, grouped)
          ELSE groupFrom(chunks, i + 1, currentStart, currentEnd,
                         Append(grouped, <<start, end>>))

groupConsecutiveMergedChunks(chunks) ==
  IF Len(chunks) = 0
  THEN <<>>
  ELSE groupFrom(chunks, 2, chunks[1][1], chunks[1][2], <<>>)

groupConsecutiveChunks(chunks) ==
  IF Len(chunks) = 0
  THEN <<>>
  ELSE groupConsecutiveMergedChunks(mergeOverlappingChunks(sortChunks(chunks)))

(***************************************************************************)
(* The availability service: the handlers of CreateAvailability,           *)
(* GetAvailability and UpdateAvailability over table availability.         *)
(*                                                                         *)
(* The store is PostgreSQL at its default isolation level, read committed: *)
(* a statement sees the rows committed when it starts and its own          *)
(* transaction's writes; a row deleted or inserted by a transaction is     *)
(* locked until that transaction ends, and a statement that needs a locked *)
(* row waits. A block is the pair <<start_time, end_time>>; a row is a     *)
(* block of a user with its matched flag.                                  *)
(***************************************************************************)
Users == {"u1", "u2"}

\* the role claim of each principal's token
Role == [u \in Users |-> IF u = "u2" THEN "admin" ELSE "student"]

\* a request without a valid token has no current user
NoUser == "anonymous"

Callers == Users \cup {NoUser}

Procs == {"p1", "p2"}

IdleTx ==
  [pc |-> "idle", user |-> "", ranges |-> <<>>, chunks |-> <<>>, idx |-> 0,
   deleted |-> {}, waitFor |-> {}, writers |-> {}, skipped |-> 0]

\* writers, failedAt, asked and reads are history, not part of the response:
\* the kinds of request that committed a write to the user's rows while the
\* answered update was in flight, the number of the statement whose error the
\* request answers with database_error (0 when none failed), the user IDs a
\* batch request asked for and those it read from the table, the number of
\* remove entries the answered update skipped. entries is the body of a batch
\* response.
NoResponse ==
  [op |-> "none", status |-> 0, error |-> "", user |-> "", ranges |-> <<>>,
   writers |-> {}, failedAt |-> 0, asked |-> <<>>, reads |-> <<>>,
   entries |-> <<>>, skipped |-> 0]

Respond(op, status, error, user, ranges) ==
  [op |-> op, status |-> status, error |-> error, user |-> user, ranges |-> ranges,
   writers |-> {}, failedAt |-> 0, asked |-> <<>>, reads |-> <<>>,
   entries |-> <<>>, skipped |-> 0]

Row(user, block, matched) ==
  [user_id |-> user, start_time |-> block[1], end_time |-> block[2],
   matched |-> matched]

BlockOf(row) == <<row.start_time, row.end_time>>

\* the committed blocks of a user
StoredBlocks(rows, user) == {BlockOf(r) : r \in {r \in rows : r.user_id = user}}

SetLeast(S) == CHOOSE x \in S : \A y \in S : x <= y

\* get_availibility.sql: one row per (user_id, start_time), the latest
\* created, in the order of start_time
RECURSIVE OrderByStart(_)
OrderByStart(blocks) ==
  IF blocks = {}
  THEN <<>>
  ELSE LET first == SetLeast({b[1] : b \in blocks})
           row == CHOOSE b \in blocks : b[1] = first
       IN <<row>> \o OrderByStart({b \in blocks : b[1] # first})

\* getAvailability: the records of the user, as TimeInterval chunks
getAvailability(rows, user) == OrderByStart(StoredBlocks(rows, user))

\* an upsert whose conflict is on (start_time, end_time) alone: it replaces
\* the row of the block whoever its user is
upsertAvailabilityAnyUser(rows, user, blocks, matched) ==
  {r \in rows : BlockOf(r) \notin blocks}
    \cup {Row(user, b, matched) : b \in blocks}

\* an insert without the conflict clause: a row is added for each block
upsertAvailabilityInsert(rows, user, blocks, matched) ==
  rows \cup {Row(user, b, matched) : b \in blocks}

\* batch_upsert_availability.sql for each block: insert, or on conflict of
\* (user_id, start_time, end_time) overwrite the row's matched flag
upsertAvailability(rows, user, blocks, matched) ==
  {r \in rows : ~(r.user_id = user /\ BlockOf(r) \in blocks)}
    \cup {Row(user, b, matched) : b \in blocks}

SeqRange(seq) == {seq[i] : i \in 1..Len(seq)}

\* a batch whose statements each commit on their own: the upserts queued
\* before the one that fails stay
sendBatchAutocommit(rows, user, chunks, matched, failAt) ==
  IF failAt = 0
  THEN upsertAvailability(rows, user, SeqRange(chunks), matched)
  ELSE upsertAvailability(rows, user, {chunks[i] : i \in 1..(failAt - 1)}, matched)

\* pgxPool.SendBatch of one upsert per chunk: the batch runs as one implicit
\* transaction, so when statement failAt returns an error (failAt > 0) none
\* of its upserts is committed
sendBatch(rows, user, chunks, matched, failAt) ==
  IF failAt = 0
  THEN upsertAvailability(rows, user, SeqRange(chunks), matched)
  ELSE rows

(***************************************************************************)
(* removeTimeInterval                                                      *)
(***************************************************************************)
\* the loop of a removal that drops every interval the removed one overlaps,
\* without keeping what is left of it before and after
RECURSIVE removeFromWhole(_, _, _, _)
removeFromWhole(intervals, i, toRemove, result) ==
  IF i > Len(intervals)
  THEN result
  ELSE LET interval == intervals[i] IN
       IF Len(interval) # 2
       THEN removeFromWhole(intervals, i + 1, toRemove, result)
       ELSE IF interval[2] < toRemove[1] \/ interval[1] > toRemove[2]
       THEN removeFromWhole(intervals, i + 1, toRemove, Append(result, interval))
       ELSE removeFromWhole(intervals, i + 1, toRemove, result)

RECURSIVE removeFrom(_, _, _, _)
removeFrom(intervals, i, toRemove, result) ==
  IF i > Len(intervals)
  THEN result
  ELSE LET interval == intervals[i] IN
       IF Len(interval) # 2
       THEN removeFrom(intervals, i + 1, toRemove, result)
       ELSE IF interval[2] < toRemove[1] \/ interval[1] > toRemove[2]
       THEN removeFrom(intervals, i + 1, toRemove, Append(result, interval))
       ELSE LET before == IF interval[1] < toRemove[1]
                          THEN <<<<interval[1], toRemove[1]>>>>
                          ELSE <<>>
                after == IF interval[2] > toRemove[2]
                         THEN <<<<toRemove[2], interval[2]>>>>
                         ELSE <<>>
            IN removeFrom(intervals, i + 1, toRemove, result \o before \o after)

\* a removal that takes an entry without two endpoints for "everything"
removeTimeIntervalClears(intervals, toRemove) ==
  IF Len(toRemove) # 2
  THEN <<>>
  ELSE removeFrom(intervals, 1, toRemove, <<>>)

removeTimeInterval(intervals, toRemove) ==
  IF Len(toRemove) # 2
  THEN intervals
  ELSE removeFrom(intervals, 1, toRemove, <<>>)

\* for _, removeInterval := range *req.Changes.Remove
RECURSIVE removeAll(_, _, _)
removeAll(intervals, remove, i) ==
  IF i > Len(remove)
  THEN intervals
  ELSE removeAll(removeTimeInterval(intervals, remove[i]), remove, i + 1)

\* the number of entries of remove that removeTimeInterval returns early on
skippedEntries(remove) ==
  Cardinality({i \in 1..Len(remove) : Len(remove[i]) # 2})

\* UpdateAvailability from the current records to the final chunks: the
\* error of the response, the updated intervals and the final chunks
applyChanges(currentChunks, add, remove) ==
  LET currentIntervals == groupConsecutiveChunks(currentChunks)
      removed == removeAll(currentIntervals, remove, 1)
      readded == convertIntervalsIntoChunks(removed \o add)
      updatedIntervals == IF Len(add) > 0
                          THEN groupConsecutiveChunks(readded.chunks)
                          ELSE removed
      final == convertIntervalsIntoChunks(updatedIntervals)
  IN IF Len(add) > 0 /\ readded.err # ErrNone
     THEN [error |-> "invalid_intervals", ranges |-> <<>>, chunks |-> <<>>]
     ELSE IF final.err # ErrNone
     THEN [error |-> "invalid_intervals", ranges |-> <<>>, chunks |-> <<>>]
     ELSE [error |-> "", ranges |-> updatedIntervals, chunks |-> final.chunks]

(***************************************************************************)
(* Requests                                                                *)
(***************************************************************************)
\* the ranges a request carries: on the quarter hour, off it by seconds
\* (00:45:30), off it by minutes (00:50), start after end, and one endpoint
RequestRanges ==
  {<<2700, 3600>>, <<3600, 4500>>, <<2700, 4500>>, <<2730, 3600>>,
   <<2700, 3000>>, <<3600, 2700>>, <<2700>>}

RequestLists == {<<>>} \cup {<<r>> : r \in RequestRanges}

\* no request of the model stores a block that ends after 01:15:30
Horizon == 4530

WithinHorizon(chunks) == \A i \in 1..Len(chunks) : chunks[i][2] <= Horizon

Forbidden(caller, userID) == caller # userID /\ Role[caller] # "admin"

\* the blocks that transactions other than p's hold locked for the user
LockedByOthers(p, user) ==
  UNION {tx[q].deleted \cup {tx[q].chunks[i] : i \in 1..tx[q].idx} :
           q \in {q \in Procs \ {p} : tx[q].pc # "idle" /\ tx[q].user = user}}

\* a committed write to the user's rows, noted by the transactions in flight
\* for that user other than p's
NoteWriter(p, user, kind, gone) ==
  [q \in Procs |->
     IF q # p /\ tx[q].pc # "idle" /\ tx[q].user = user
     THEN [tx[q] EXCEPT !.writers = @ \cup {kind}, !.waitFor = @ \ gone]
     ELSE tx[q]]

\* a create that stores the blocks of its ranges before it checks the caller
\* and the body
CreateAvailabilityStoresFirst(caller, userID, bodyUser, ranges) ==
  LET converted == convertIntervalsIntoChunks(ranges)
      blocks == SeqRange(converted.chunks)
      refused == IF caller = NoUser THEN <<401, "unauthorized">>
                 ELSE IF Forbidden(caller, userID) THEN <<403, "forbidden">>
                 ELSE IF bodyUser # userID THEN <<400, "user_id_mismatch">>
                 ELSE IF Len(ranges) = 0 THEN <<400, "no_intervals">>
                 ELSE IF converted.err # ErrNone THEN <<400, "invalid_intervals">>
                 ELSE IF Len(converted.chunks) = 0 THEN <<400, "no_valid_intervals">>
                 ELSE <<201, "">>
  IN
  /\ WithinHorizon(converted.chunks)
  /\ blocks \cap LockedByOthers("", userID) = {}
  /\ availability' = upsertAvailability(availability, userID, blocks, FALSE)
  /\ tx' = tx
  /\ response' = Respond("create", refused[1], refused[2], userID,
                         IF refused[1] = 201 THEN ranges ELSE <<>>)
  /\ UNCHANGED <<helperVars, accountVars>>

\* CreateAvailability, one request from its checks to its response; the batch
\* of upserts is one implicit transaction, which runs once none of its rows
\* is locked
CreateAvailability(caller, userID, bodyUser, ranges) ==
  LET converted == convertIntervalsIntoChunks(ranges)
      blocks == SeqRange(converted.chunks)
  IN
  /\ UNCHANGED <<helperVars, accountVars>>
  /\ IF caller = NoUser
     THEN /\ response' = Respond("create", 401, "unauthorized", userID, <<>>)
          /\ UNCHANGED <<availability, tx>>
     ELSE IF Forbidden(caller, userID)
     THEN /\ response' = Respond("create", 403, "forbidden", userID, <<>>)
          /\ UNCHANGED <<availability, tx>>
     ELSE IF bodyUser # userID
     THEN /\ response' = Respond("create", 400, "user_id_mismatch", userID, <<>>)
          /\ UNCHANGED <<availability, tx>>
     ELSE IF Len(ranges) = 0
     THEN /\ response' = Respond("create", 400, "no_intervals", userID, <<>>)
          /\ UNCHANGED <<availability, tx>>
     ELSE IF converted.err # ErrNone
     THEN /\ response' = Respond("create", 400, "invalid_intervals", userID, <<>>)
          /\ UNCHANGED <<availability, tx>>
     ELSE IF Len(converted.chunks) = 0
     THEN /\ response' = Respond("create", 400, "no_valid_intervals", userID, <<>>)
          /\ UNCHANGED <<availability, tx>>
     ELSE /\ WithinHorizon(converted.chunks)
          /\ blocks \cap LockedByOthers("", userID) = {}
          /\ \E failAt \in 0..Len(converted.chunks) :
               /\ availability' =
                    sendBatch(availability, userID, converted.chunks, FALSE, failAt)
               /\ IF failAt = 0
                  THEN /\ tx' = NoteWriter("", userID, "create", {})
                       /\ response' = Respond("create", 201, "", userID, ranges)
                  ELSE /\ tx' = tx
                       /\ response' =
                            [Respond("create", 500, "database_error", userID, <<>>)
                               EXCEPT !.failedAt = failAt]

\* GetAvailability, one request: a single select, then the grouping
GetAvailability(caller, userID) ==
  /\ UNCHANGED <<helperVars, accountVars, availability, tx>>
  /\ IF caller = NoUser
     THEN response' = Respond("get", 401, "unauthorized", userID, <<>>)
     ELSE IF Forbidden(caller, userID)
     THEN response' = Respond("get", 403, "forbidden", userID, <<>>)
     ELSE response' = Respond("get", 200, "", userID,
            groupConsecutiveChunks(getAvailability(availability, userID)))

\* a check of the first requested ID only
batchForbiddenFirstOnly(caller, userIDs) ==
  Role[caller] # "admin" /\ userIDs[1] # caller

\* GetBatchAvailability: a caller who is not admin asks for an ID not its own
batchForbidden(caller, userIDs) ==
  /\ Role[caller] # "admin"
  /\ \E i \in 1..Len(userIDs) : userIDs[i] # caller

\* the entry of one user ID: its stored chunks, grouped
batchEntry(rows, userID) ==
  [user_id |-> userID,
   available_time_intervals |-> groupConsecutiveChunks(getAvailability(rows, userID))]

\* a loop that answers each user ID once, at its first place in the request
RECURSIVE batchEntriesOnce(_, _)
batchEntriesOnce(rows, userIDs) ==
  IF Len(userIDs) = 0
  THEN <<>>
  ELSE LET front == batchEntriesOnce(rows, SubSeq(userIDs, 1, Len(userIDs) - 1))
           last == userIDs[Len(userIDs)]
       IN IF \E i \in 1..(Len(userIDs) - 1) : userIDs[i] = last
          THEN front
          ELSE Append(front, batchEntry(rows, last))

\* GetBatchAvailability: for _, userID := range req.UserIds, one entry each
batchEntries(rows, userIDs) ==
  [i \in 1..Len(userIDs) |-> batchEntry(rows, userIDs[i])]

\* GetBatchAvailability, one request: the checks, then one select per
\* requested ID
GetBatchAvailability(caller, userIDs) ==
  /\ UNCHANGED <<helperVars, accountVars, availability, tx>>
  /\ IF caller = NoUser
     THEN response' = [Respond("getBatch", 401, "unauthorized", caller, <<>>)
                         EXCEPT !.asked = userIDs]
     ELSE IF Len(userIDs) = 0
     THEN response' = [Respond("getBatch", 400, "no_users", caller, <<>>)
                         EXCEPT !.asked = userIDs]
     ELSE IF batchForbidden(caller, userIDs)
     THEN response' = [Respond("getBatch", 403, "forbidden", caller, <<>>)
                         EXCEPT !.asked = userIDs]
     ELSE response' = [Respond("getBatch", 200, "", caller, <<>>)
                         EXCEPT !.asked = userIDs,
                                !.reads = userIDs,
                                !.entries = batchEntries(availability, userIDs)]

\* UpdateAvailability up to the call of replaceAvailability and its Begin
UpdateAvailability(p, caller, userID, bodyUser, add, remove) ==
  LET changed == applyChanges(getAvailability(availability, userID), add, remove)
  IN
  /\ tx[p].pc = "idle"
  /\ UNCHANGED <<helperVars, accountVars, availability>>
  /\ IF caller = NoUser
     THEN /\ response' = Respond("update", 401, "unauthorized", userID, <<>>)
          /\ UNCHANGED tx
     ELSE IF Forbidden(caller, userID)
     THEN /\ response' = Respond("update", 403, "forbidden", userID, <<>>)
          /\ UNCHANGED tx
     ELSE IF bodyUser # userID
     THEN /\ response' = Respond("update", 400, "user_id_mismatch", userID, <<>>)
          /\ UNCHANGED tx
     ELSE IF changed.error # ""
     THEN /\ response' = Respond("update", 400, changed.error, userID, <<>>)
          /\ UNCHANGED tx
     ELSE /\ WithinHorizon(changed.chunks)
          /\ tx' = [tx EXCEPT ![p] =
                      [IdleTx EXCEPT !.pc = "delete", !.user = userID,
                                     !.ranges = changed.ranges,
                                     !.chunks = changed.chunks,
                                     !.skipped = skippedEntries(remove)]]
          /\ response' = NoResponse

\* a DELETE run on the pool instead of the transaction: it commits at once
txExecAutocommit(rows, user, gone) ==
  {r \in rows : ~(r.user_id = user /\ BlockOf(r) \in gone)}

\* the rows a statement run on the transaction (tx.Exec) leaves committed:
\* none of its writes shows before Commit
txExec(rows, user, gone) == rows

AfterDelete(t) == IF Len(t.chunks) = 0 THEN "commit" ELSE "insert"

\* replaceAvailability: DELETE FROM availability WHERE user_id = $1. The rows
\* are those committed when the statement starts; it locks the free ones and
\* waits for the locked ones
ReplaceDelete(p) ==
  LET t == tx[p]
      snapshot == StoredBlocks(availability, t.user)
      locked == snapshot \cap LockedByOthers(p, t.user)
  IN
  /\ t.pc = "delete"
  /\ tx' = [tx EXCEPT ![p] =
              [t EXCEPT !.deleted = snapshot \ locked,
                        !.waitFor = locked,
                        !.pc = IF locked = {} THEN AfterDelete(t) ELSE "delete_wait"]]
  /\ availability' = txExec(availability, t.user, snapshot \ locked)
  /\ response' = NoResponse
  /\ UNCHANGED <<helperVars, accountVars>>

\* the DELETE goes on once the rows it waited for are free: those their
\* transaction deleted are gone, the others are deleted now
ReplaceDeleteResume(p) ==
  LET t == tx[p] IN
  /\ t.pc = "delete_wait"
  /\ t.waitFor \cap LockedByOthers(p, t.user) = {}
  /\ tx' = [tx EXCEPT ![p] =
              [t EXCEPT !.deleted = @ \cup t.waitFor,
                        !.waitFor = {},
                        !.pc = AfterDelete(t)]]
  /\ availability' = txExec(availability, t.user, t.waitFor)
  /\ response' = NoResponse
  /\ UNCHANGED <<helperVars, accountVars>>

\* replaceAvailability: the upsert of the next chunk, which waits while
\* another transaction holds that block's row
ReplaceInsert(p) ==
  LET t == tx[p] IN
  /\ t.pc = "insert"
  /\ t.chunks[t.idx + 1] \notin LockedByOthers(p, t.user)
  /\ tx' = [tx EXCEPT ![p] =
              [t EXCEPT !.idx = @ + 1,
                        !.pc = IF t.idx + 1 = Len(t.chunks) THEN "commit" ELSE "insert"]]
  /\ UNCHANGED <<helperVars, accountVars, availability>>
  /\ response' = NoResponse

\* replaceAvailability: tx.Commit, then the response of UpdateAvailability
ReplaceCommit(p) ==
  LET t == tx[p]
      kept == {r \in availability :
                 ~(r.user_id = t.user /\ BlockOf(r) \in t.deleted)}
  IN
  /\ t.pc = "commit"
  /\ availability' = upsertAvailability(kept, t.user, SeqRange(t.chunks), FALSE)
  /\ tx' = [NoteWriter(p, t.user, "update", t.deleted) EXCEPT ![p] = IdleTx]
  /\ response' = [Respond("update", 200, "", t.user, t.ranges)
                    EXCEPT !.writers = t.writers, !.skipped = t.skipped]
  /\ UNCHANGED <<helperVars, accountVars>>

\* the statements of replaceAvailability in order: the DELETE, one upsert
\* per chunk, the Commit
StatementAt(t) == IF t.pc \in {"delete", "delete_wait"} THEN 1 ELSE t.idx + 2

\* a failure after which the statements that ran stay: the rows deleted are
\* gone and the chunks upserted so far are stored
ReplaceFailKeepsWrites(p) ==
  LET t == tx[p]
      kept == {r \in availability :
                 ~(r.user_id = t.user /\ BlockOf(r) \in t.deleted)}
  IN
  /\ t.pc \in {"delete", "delete_wait", "insert", "commit"}
  /\ availability' =
       upsertAvailability(kept, t.user, {t.chunks[i] : i \in 1..t.idx}, FALSE)
  /\ tx' = [tx EXCEPT ![p] = IdleTx]
  /\ response' = [Respond("update", 500, "database_error", t.user, <<>>)
                    EXCEPT !.failedAt = StatementAt(t)]
  /\ UNCHANGED <<helperVars, accountVars>>

\* replaceAvailability: a statement or the commit returns an error (the
\* connection, a timeout, a deadlock), the deferred Rollback runs
ReplaceFail(p) ==
  LET t == tx[p] IN
  /\ t.pc \in {"delete", "delete_wait", "insert", "commit"}
  /\ tx' = [tx EXCEPT ![p] = IdleTx]
  /\ response' = [Respond("update", 500, "database_error", t.user, <<>>)
                    EXCEPT !.failedAt = StatementAt(t)]
  /\ UNCHANGED <<helperVars, accountVars, availability>>

\* the matching process, which is not part of the service: it marks a stored
\* block of a user as paired
MatchBlock(user, block) ==
  /\ \E r \in availability :
       /\ r.user_id = user /\ BlockOf(r) = block /\ ~r.matched
       /\ availability' = (availability \ {r}) \cup {Row(user, block, TRUE)}
  /\ response' = NoResponse
  /\ UNCHANGED <<helperVars, accountVars, tx>>

(***************************************************************************)
(* Users, classes and the auth middleware                                  *)
(***************************************************************************)
\* the principals of the tokens: two with a user row, one without
Accounts == {"a1", "a2", "n1"}

\* getUserByFirebaseUID finds no active row
NoRecord == "none"

validRoles == {"admin", "student", "tutor"}

\* the role of a request body: absent, two of the valid ones, an invalid one
RequestRoles == {"", "admin", "student", "owner"}

\* table courses, which no handler of the model writes
Courses == {"k1"}

RequestCourses == {"", "k1", "k9"}

ClassIds == {"c1"}

\* requests start while fewer than MaxLeaks transactions are left open
MaxLeaks == 1

Methods == {"GET", "POST", "PUT"}

\* a URL path as its segments: /v1/user/a1 is <<"v1", "user", "a1">>
UserPath(id) == <<"v1", "user", id>>

AvailabilityPath(id) == <<"v1", "user", id, "availability">>

Paths ==
  {<<"v1", "user">>, <<"v1", "class">>}
    \cup {UserPath(id) : id \in Accounts}
    \cup {AvailabilityPath(id) : id \in Accounts}

\* strings.Contains(c.Request.URL.Path, "/v1/user/"): the segments v1 and
\* user follow each other and a slash follows user
ContainsUserPrefix(path) ==
  \E i \in 1..Len(path) : /\ i + 2 <= Len(path)
                          /\ path[i] = "v1"
                          /\ path[i + 1] = "user"

\* the routes of the generated router: the handler a method and a path reach
Route(method, path) ==
  IF Len(path) = 3 /\ SubSeq(path, 1, 2) = <<"v1", "user">>
  THEN CASE method = "POST" -> "CreateUser"
         [] method = "GET" -> "GetUser"
         [] method = "PUT" -> "UpdateUser"
         [] OTHER -> "none"
  ELSE IF Len(path) = 4 /\ SubSeq(path, 1, 2) = <<"v1", "user">> /\ path[4] = "availability"
  THEN CASE method = "POST" -> "CreateAvailability"
         [] method = "GET" -> "GetAvailability"
         [] method = "PUT" -> "UpdateAvailability"
         [] OTHER -> "none"
  ELSE IF path = <<"v1", "class">> /\ method = "POST"
  THEN "CreateClass"
  ELSE IF path = <<"v1", "user">> /\ method = "GET"
  THEN "ListUsers"
  ELSE "none"

\* AuthMiddleware.RequireAuth: status 0 is c.Next()
RequireAuth(table, principal, method, path, lookupFails) ==
  IF principal = NoUser
  THEN [status |-> 401, error |-> "unauthorized", isNewUser |-> FALSE, role |-> ""]
  ELSE IF lookupFails
  THEN [status |-> 500, error |-> "internal_error", isNewUser |-> FALSE, role |-> ""]
  ELSE IF table[principal] = NoRecord
  THEN IF method = "POST" /\ ContainsUserPrefix(path)
       THEN [status |-> 0, error |-> "", isNewUser |-> TRUE, role |-> ""]
       ELSE [status |-> 403, error |-> "user_record_required", isNewUser |-> FALSE,
             role |-> ""]
  ELSE [status |-> 0, error |-> "", isNewUser |-> FALSE, role |-> table[principal]]

\* err is the error variable the deferred function of the handler tests, txn
\* the state of the transaction of s.sqlDB.Begin()
IdleCall ==
  [handler |-> "none", pc |-> "idle", target |-> "", role |-> "", named |-> FALSE,
   student |-> "", course |-> "", err |-> FALSE, txn |-> "none"]

NoReturn == [handler |-> "none", status |-> 0, error |-> "", txn |-> "none"]

\* the bodies of the requests: of CreateUser and UpdateUser (a role, names or
\* not), of CreateClass (well-formed or not, a student, a course)
Body(role, named, student, course) ==
  [role |-> role, named |-> named, student |-> student, course |-> course]

BodiesFor(handler) ==
  CASE handler = "CreateUser" ->
         {Body(r, n, "", "") : r \in {"admin", "student", "owner"}, n \in BOOLEAN}
    [] handler = "UpdateUser" ->
         {Body(r, n, "", "") : r \in RequestRoles, n \in BOOLEAN}
    [] handler = "CreateClass" ->
         {Body("", n, st, k) : n \in BOOLEAN, st \in {"a2", "n1"}, k \in RequestCourses}
    [] OTHER -> {Body("", FALSE, "", "")}

\* the rows of users that a transaction other than p's holds locked: those an
\* UPDATE of an open transaction wrote
LockedRows(p) ==
  {calls[q].target : q \in {q \in Procs \ {p} :
                              /\ calls[q].handler = "UpdateUser"
                              /\ calls[q].pc \in {"claims", "commit"}}}
    \cup {l.row : l \in leaks}

\* the row the transaction of a call holds locked
RowOf(call) ==
  IF call.handler = "UpdateUser" /\ call.pc \in {"claims", "commit"}
       /\ users[call.target] # NoRecord
  THEN call.target
  ELSE ""

\* defer func() { if err != nil { tx.Rollback() } }()
deferRollback(call) ==
  IF call.txn = "open" /\ call.err THEN "rolledback" ELSE call.txn

\* the handler of worker p returns: call is its state at the return
Return(p, call, status, error) ==
  LET txn == deferRollback(call) IN
  /\ calls' = [calls EXCEPT ![p] = IdleCall]
  /\ returned' = [handler |-> call.handler, status |-> status, error |-> error,
                  txn |-> txn]
  /\ leaks' = IF txn = "open"
              THEN leaks \cup {[handler |-> call.handler, row |-> RowOf(call)]}
              ELSE leaks

\* the handler goes on to its next statement
Goto(p, call, pc) ==
  /\ calls' = [calls EXCEPT ![p] = [call EXCEPT !.pc = pc]]
  /\ returned' = NoReturn
  /\ UNCHANGED leaks

\* CreateUser up to s.sqlDB.Begin()
CreateUserStart(p, auth, userID, body) ==
  LET call == [IdleCall EXCEPT !.handler = "CreateUser", !.target = userID,
                               !.role = body.role, !.named = body.named]
  IN
  IF ~auth.isNewUser
  THEN Return(p, call, 400, "invalid_operation")
  ELSE IF ~body.named
  THEN Return(p, call, 400, "invalid_request")
  ELSE IF body.role \notin validRoles
  THEN Return(p, call, 400, "invalid_role")
  ELSE Goto(p, [call EXCEPT !.txn = "open"], "claims")

\* UpdateUser up to the query of the target's role
UpdateUserStart(p, principal, auth, userID, body) ==
  LET call == [IdleCall EXCEPT !.handler = "UpdateUser", !.target = userID,
                               !.role = body.role, !.named = body.named]
  IN
  IF auth.isNewUser
  THEN Return(p, call, 401, "unauthorized")
  ELSE IF principal # userID /\ auth.role # "admin"
  THEN Return(p, call, 403, "forbidden")
  ELSE IF body.role = ""
  THEN Goto(p, call, "begin")
  ELSE IF body.role \notin validRoles
  THEN Return(p, call, 400, "invalid_role")
  ELSE IF auth.role # "admin"
  THEN Return(p, call, 403, "forbidden")
  ELSE IF principal = userID
  THEN Return(p, call, 403, "forbidden")
  ELSE Goto(p, call, "role")

\* CreateClass up to s.sqlDB.Begin(); the checks of the body are one
CreateClassStart(p, auth, classID, body) ==
  LET call == [IdleCall EXCEPT !.handler = "CreateClass", !.target = classID,
                               !.named = body.named, !.student = body.student,
                               !.course = body.course]
  IN
  IF auth.isNewUser
  THEN Return(p, call, 401, "unauthorized")
  ELSE IF auth.role \notin {"admin", "tutor"}
  THEN Return(p, call, 403, "forbidden")
  ELSE IF ~body.named
  THEN Return(p, call, 400, "invalid_request")
  ELSE Goto(p, [call EXCEPT !.txn = "open"], "validate")

\* the handlers of the availability routes, which start with
\* auth.GetCurrentUser
OtherHandlerStart(p, auth, handler) ==
  /\ auth.isNewUser
  /\ Return(p, [IdleCall EXCEPT !.handler = handler], 401, "unauthorized")

\* a request arrives at worker p: the middleware, then the handler of the
\* route up to its first statement on the database
Request(p, principal, method, path, lookupFails, body) ==
  LET auth == RequireAuth(users, principal, method, path, lookupFails)
      handler == Route(method, path)
  IN
  /\ calls[p].pc = "idle"
  /\ handler # "none"
  /\ Cardinality(leaks) < MaxLeaks
  /\ UNCHANGED <<helperVars, serviceVars, users, classes>>
  /\ IF auth.status # 0
     THEN Return(p, IdleCall, auth.status, auth.error)
     ELSE CASE handler = "CreateUser" -> CreateUserStart(p, auth, path[3], body)
            [] handler = "UpdateUser" ->
                 UpdateUserStart(p, principal, auth, path[3], body)
            [] handler = "CreateClass" ->
                 \E classID \in ClassIds : CreateClassStart(p, auth, classID, body)
            [] OTHER -> OtherHandlerStart(p, auth, handler)

\* UpdateUser: SELECT role FROM users WHERE user_id = $1, on the pool
UpdateUserRole(p) ==
  LET call == calls[p] IN
  /\ call.handler = "UpdateUser" /\ call.pc = "role"
  /\ UNCHANGED <<helperVars, serviceVars, users, classes>>
  /\ IF users[call.target] = NoRecord
     THEN Return(p, call, 500, "database_error")
     ELSE IF users[call.target] = "admin" /\ call.role # "admin"
     THEN Goto(p, call, "count")
     ELSE Goto(p, call, "begin")

\* SELECT COUNT(*) FROM users WHERE role = 'admin' AND user_id != $1
adminCount(table, userID) ==
  Cardinality({a \in Accounts \ {userID} : table[a] = "admin"})

\* UpdateUser: the count of the other admins, on the pool
UpdateUserCount(p) ==
  LET call == calls[p] IN
  /\ call.handler = "UpdateUser" /\ call.pc = "count"
  /\ UNCHANGED <<helperVars, serviceVars, users, classes>>
  /\ IF adminCount(users, call.target) = 0
     THEN Return(p, call, 403, "forbidden")
     ELSE Goto(p, call, "begin")

\* UpdateUser: s.sqlDB.Begin() and the SET parts of the query
UpdateUserBegin(p) ==
  LET call == [calls[p] EXCEPT !.txn = "open"] IN
  /\ call.handler = "UpdateUser" /\ call.pc = "begin"
  /\ UNCHANGED <<helperVars, serviceVars, users, classes>>
  /\ IF ~call.named /\ call.role = ""
     THEN Return(p, call, 400, "no_changes")
     ELSE Goto(p, call, "exec")

\* UpdateUser: tx.Exec of the UPDATE, which waits for a locked row
UpdateUserExec(p, fails) ==
  LET call == calls[p] IN
  /\ call.handler = "UpdateUser" /\ call.pc = "exec"
  /\ call.target \notin LockedRows(p)
  /\ UNCHANGED <<helperVars, serviceVars, users, classes>>
  /\ IF fails
     THEN Return(p, [call EXCEPT !.err = TRUE], 500, "database_error")
     ELSE IF call.role # ""
     THEN Goto(p, call, "claims")
     ELSE Goto(p, call, "commit")

\* UpdateUser: the query of firebase_uid on the pool, then SetCustomClaims
UpdateUserClaims(p, outcome) ==
  LET call == calls[p] IN
  /\ call.handler = "UpdateUser" /\ call.pc = "claims"
  /\ UNCHANGED <<helperVars, serviceVars, users, classes>>
  /\ CASE outcome = "uid_error" ->
            Return(p, [call EXCEPT !.err = TRUE], 500, "database_error")
       [] outcome = "claims_error" -> Return(p, call, 500, "firebase_error")
       [] OTHER -> Goto(p, call, "commit")

\* UpdateUser: tx.Commit(), then GetUser
UpdateUserCommit(p, fails) ==
  LET call == calls[p] IN
  /\ call.handler = "UpdateUser" /\ call.pc = "commit"
  /\ UNCHANGED <<helperVars, serviceVars, classes>>
  /\ IF fails
     THEN /\ Return(p, [call EXCEPT !.txn = "rolledback"], 500, "database_error")
          /\ UNCHANGED users
     ELSE /\ users' = IF call.role # "" /\ users[call.target] # NoRecord
                      THEN [users EXCEPT ![call.target] = call.role]
                      ELSE users
          /\ IF users[call.target] = NoRecord
             THEN Return(p, [call EXCEPT !.txn = "committed"], 404, "user_not_found")
             ELSE Return(p, [call EXCEPT !.txn = "committed"], 200, "")

\* CreateUser: SetCustomClaims
CreateUserClaims(p, fails) ==
  LET call == calls[p] IN
  /\ call.handler = "CreateUser" /\ call.pc = "claims"
  /\ UNCHANGED <<helperVars, serviceVars, users, classes>>
  /\ IF fails
     THEN Return(p, call, 500, "firebase_error")
     ELSE Goto(p, call, "insert")

\* CreateUser: the INSERT, which unique_firebase_uid refuses for a principal
\* that has a row
CreateUserInsert(p, fails) ==
  LET call == calls[p] IN
  /\ call.handler = "CreateUser" /\ call.pc = "insert"
  /\ UNCHANGED <<helperVars, serviceVars, users, classes>>
  /\ IF fails \/ users[call.target] # NoRecord
     THEN Return(p, [call EXCEPT !.err = TRUE], 500, "database_error")
     ELSE Goto(p, call, "commit")

\* CreateUser: tx.Commit()
CreateUserCommit(p, fails) ==
  LET call == calls[p] IN
  /\ call.handler = "CreateUser" /\ call.pc = "commit"
  /\ UNCHANGED <<helperVars, serviceVars, classes>>
  /\ IF fails \/ users[call.target] # NoRecord
     THEN /\ Return(p, [call EXCEPT !.txn = "rolledback"], 500, "database_error")
          /\ UNCHANGED users
     ELSE /\ users' = [users EXCEPT ![call.target] = call.role]
          /\ Return(p, [call EXCEPT !.txn = "committed"], 201, "")

\* CreateClass: validateParticipantsExist (the teacher is a1), then
\* validateCourseExists when the body names a course
CreateClassValidate(p, outcome) ==
  LET call == calls[p] IN
  /\ call.handler = "CreateClass" /\ call.pc = "validate"
  /\ UNCHANGED <<helperVars, serviceVars, users, classes>>
  /\ IF outcome = "participants_error"
     THEN Return(p, [call EXCEPT !.err = TRUE], 500, "database_error")
     ELSE IF users[call.student] = NoRecord \/ users["a1"] = NoRecord
     THEN Return(p, call, 400, "participant_not_found")
     ELSE IF call.course # "" /\ outcome = "course_error"
     THEN Return(p, call, 500, "database_error")
     ELSE IF call.course # "" /\ call.course \notin Courses
     THEN Return(p, call, 400, "course_not_found")
     ELSE Goto(p, call, "insert")

\* CreateClass: the INSERT of the class, then of its participants
CreateClassInsert(p, outcome) ==
  LET call == calls[p] IN
  /\ call.handler = "CreateClass" /\ call.pc = "insert"
  /\ UNCHANGED <<helperVars, serviceVars, users, classes>>
  /\ IF call.target \in classes
     THEN Return(p, [call EXCEPT !.err = TRUE], 409, "class_exists")
     ELSE IF outcome # "ok"
     THEN Return(p, [call EXCEPT !.err = TRUE], 500, "database_error")
     ELSE Goto(p, call, "commit")

\* CreateClass: tx.Commit()
CreateClassCommit(p, fails) ==
  LET call == calls[p] IN
  /\ call.handler = "CreateClass" /\ call.pc = "commit"
  /\ UNCHANGED <<helperVars, serviceVars, users>>
  /\ IF fails \/ call.target \in classes
     THEN /\ Return(p, [call EXCEPT !.txn = "rolledback"], 500, "database_error")
          /\ UNCHANGED classes
     ELSE /\ classes' = classes \cup {call.target}
          /\ Return(p, [call EXCEPT !.txn = "committed"], 201, "")

AccountsIdle ==
  /\ users = [a \in Accounts |-> IF a = "n1" THEN NoRecord ELSE "admin"]
  /\ classes = {}
  /\ calls = [p \in Procs |-> IdleCall]
  /\ leaks = {}
  /\ returned = NoReturn

HelperIdle ==
  /\ input = <<>>
  /\ ops = <<>>
  /\ output = <<>>
  /\ err = ErrNone
  /\ prev = <<>>
  /\ window = <<>>

Init ==
  /\ HelperIdle
  /\ availability = {}
  /\ tx = [p \in Procs |-> IdleTx]
  /\ response = NoResponse
  /\ AccountsIdle

\* the requests of the concurrent specification: one user's own requests,
\* with ranges on the quarter hour
OwnUsers == {"u1"}

QuarterRanges == {<<2700, 3600>>, <<3600, 4500>>, <<2700, 4500>>}

CreateLists == {<<r>> : r \in QuarterRanges}

AddLists == {<<>>, <<<<2700, 3600>>>>, <<<<3600, 4500>>>>}

RemoveLists == {<<>>, <<<<2700, 3600>>>>}

Next ==
  \/ \E userID \in OwnUsers, ranges \in CreateLists :
       CreateAvailability(userID, userID, userID, ranges)
  \/ \E userID \in OwnUsers : GetAvailability(userID, userID)
  \/ \E p \in Procs, userID \in OwnUsers, add \in AddLists, remove \in RemoveLists :
       UpdateAvailability(p, userID, userID, userID, add, remove)
  \/ \E p \in Procs : ReplaceDelete(p)
  \/ \E p \in Procs : ReplaceDeleteResume(p)
  \/ \E p \in Procs : ReplaceInsert(p)
  \/ \E p \in Procs : ReplaceCommit(p)
  \/ \E p \in Procs : ReplaceFail(p)

Spec == Init /\ [][Next]_vars

(***************************************************************************)
(* The sequential specification: one request at a time, run to its         *)
(* response, from any caller and with any of the request ranges for the    *)
(* first user.                                                             *)
(***************************************************************************)
Worker == "p1"

\* removals: none, a range, one that ends off the quarter hour, one endpoint,
\* one whose start is not before its end (01:00 to 01:00), one endpoint
\* before a range and three endpoints after a range
SeqRemoveLists ==
  {<<>>, <<<<2700, 3600>>>>, <<<<2700, 3000>>>>, <<<<2700>>>>, <<<<3600, 3600>>>>,
   <<<<2700>>, <<2700, 3600>>>>, <<<<3600, 4500>>, <<2700, 3600, 4500>>>>}

\* the blocks the matching process pairs
MatchedBlocks == {<<2700, 3600>>, <<2730, 3630>>}

\* every list for the first user's own requests, one list for the others
ListsFor(caller, userID, bodyUser, lists) ==
  IF caller = "u1" /\ userID = "u1" /\ bodyUser = "u1"
  THEN lists
  ELSE {<<<<2700, 3600>>>>}

NextRequests ==
  \/ /\ tx[Worker].pc = "idle"
     /\ \E caller \in Callers, userID \in Users, bodyUser \in Users :
        \E ranges \in ListsFor(caller, userID, bodyUser, RequestLists) :
          CreateAvailability(caller, userID, bodyUser, ranges)
  \/ /\ tx[Worker].pc = "idle"
     /\ \E caller \in Callers, userID \in Users : GetAvailability(caller, userID)
  \/ \E caller \in Callers, userID \in Users, bodyUser \in Users :
        \E add \in ListsFor(caller, userID, bodyUser, RequestLists),
           remove \in ListsFor(caller, userID, bodyUser, SeqRemoveLists) :
          UpdateAvailability(Worker, caller, userID, bodyUser, add, remove)
  \/ /\ tx[Worker].pc = "idle"
     /\ \E user \in Users, block \in MatchedBlocks : MatchBlock(user, block)
  \/ ReplaceDelete(Worker)
  \/ ReplaceInsert(Worker)
  \/ ReplaceCommit(Worker)
  \/ ReplaceFail(Worker)

SpecRequests == Init /\ [][NextRequests]_vars

(***************************************************************************)
(* The two-user specification: each worker serves the requests of one      *)
(* user, and the requests of the two users interleave statement by         *)
(* statement.                                                              *)
(***************************************************************************)
OwnerOf == [p \in Procs |-> IF p = "p1" THEN "u1" ELSE "u2"]

OwnerLists == {<<>>, <<<<2700, 3600>>>>}

NextUsers ==
  \/ \E userID \in Users, ranges \in {<<<<2700, 3600>>>>, <<<<2700, 4500>>>>} :
       CreateAvailability(userID, userID, userID, ranges)
  \/ \E p \in Procs, add \in OwnerLists, remove \in OwnerLists :
       UpdateAvailability(p, OwnerOf[p], OwnerOf[p], OwnerOf[p], add, remove)
  \/ \E p \in Procs : ReplaceDelete(p)
  \/ \E p \in Procs : ReplaceInsert(p)
  \/ \E p \in Procs : ReplaceCommit(p)
  \/ \E p \in Procs : ReplaceFail(p)

SpecUsers == Init /\ [][NextUsers]_vars

(***************************************************************************)
(* The batch specification: users create their own availability and any    *)
(* caller asks for the availability of a list of users.                    *)
(***************************************************************************)
\* the user IDs of a batch request: none, one, two, with repetition
BatchLists == UNION {[1..n -> Users] : n \in 0..2}

NextBatch ==
  \/ \E userID \in Users, ranges \in CreateLists :
       CreateAvailability(userID, userID, userID, ranges)
  \/ \E caller \in Callers, userIDs \in BatchLists :
       GetBatchAvailability(caller, userIDs)

SpecBatch == Init /\ [][NextBatch]_vars

(***************************************************************************)
(* The specification of the users and classes: the first worker serves     *)
(* every request, the second the role changes the admin a2 asks for, and   *)
(* their statements interleave.                                            *)
(***************************************************************************)
AccountCallers == Accounts \cup {NoUser}

RoleChanges == {Body("student", FALSE, "", ""), Body("admin", FALSE, "", "")}

\* a record-holding principal asks for the handlers of the model only
Asks(principal, handler) ==
  \/ handler \in {"CreateUser", "UpdateUser", "CreateClass"}
  \/ principal \in Accounts /\ users[principal] = NoRecord

NextAccounts ==
  \/ \E principal \in AccountCallers, method \in Methods, path \in Paths,
        lookupFails \in BOOLEAN :
       /\ Asks(principal, Route(method, path))
       /\ \E body \in BodiesFor(Route(method, path)) :
            Request(Worker, principal, method, path, lookupFails, body)
  \/ \E body \in RoleChanges : Request("p2", "a2", "PUT", UserPath("a1"), FALSE, body)
  \/ \E p \in Procs : UpdateUserRole(p)
  \/ \E p \in Procs : UpdateUserCount(p)
  \/ \E p \in Procs : UpdateUserBegin(p)
  \/ \E p \in Procs, fails \in BOOLEAN : UpdateUserExec(p, fails)
  \/ \E p \in Procs, outcome \in {"ok", "uid_error", "claims_error"} :
       UpdateUserClaims(p, outcome)
  \/ \E p \in Procs, fails \in BOOLEAN : UpdateUserCommit(p, fails)
  \/ \E fails \in BOOLEAN : CreateUserClaims(Worker, fails)
  \/ \E fails \in BOOLEAN : CreateUserInsert(Worker, fails)
  \/ \E fails \in BOOLEAN : CreateUserCommit(Worker, fails)
  \/ \E outcome \in {"ok", "participants_error", "course_error"} :
       CreateClassValidate(Worker, outcome)
  \/ \E outcome \in {"ok", "class_error", "participant_error"} :
       CreateClassInsert(Worker, outcome)
  \/ \E fails \in BOOLEAN : CreateClassCommit(Worker, fails)

SpecAccounts == Init /\ [][NextAccounts]_vars

(***************************************************************************)
(* The helper specification: an input list is drawn, then the helpers are  *)
(* applied to it, one after the other.                                     *)
(***************************************************************************)
SeqsUpTo(S, n) == UNION {[1..k -> S] : k \in 0..n}

\* intervals as a request body can carry them: any two instants, and the
\* arities 0, 1 and 3
IntervalShapes ==
  {<<s, e>> : s \in Instants, e \in Instants}
    \cup {<<>>, <<2700>>, <<2700, 3600, 4500>>, <<2700, 3600, 420>>}

\* blocks and ranges: start before end
Blocks == {<<s, e>> : s \in AlignedInstants \cup {2730},
                      e \in AlignedInstants \cup {2730}}

ProperBlocks == {b \in Blocks : b[1] < b[2]}

ConvertInputs == SeqsUpTo(IntervalShapes, MaxIntervals)

GroupInputs == SeqsUpTo(ProperBlocks, MaxChunks)

HelperInit ==
  /\ availability = {}
  /\ tx = [p \in Procs |-> IdleTx]
  /\ response = NoResponse
  /\ AccountsIdle
  /\ input \in ConvertInputs \cup GroupInputs
  /\ ops = <<>>
  /\ output = input
  /\ err = ErrNone
  /\ prev = <<>>
  /\ window = <<>>

\* chunks, err := convertIntervalsIntoChunks(...) on the current list
ApplyConvert ==
  /\ err = ErrNone
  /\ ops \in {<<>>, <<"group">>}
  /\ LET r == convertIntervalsIntoChunks(output) IN
       /\ output' = r.chunks
       /\ err' = r.err
  /\ prev' = output
  /\ ops' = Append(ops, "convert")
  /\ UNCHANGED <<input, window, serviceVars, accountVars>>

\* groupConsecutiveChunks(...) on the current list, whose elements it indexes
\* at [0] and [1]
ApplyGroup ==
  /\ err = ErrNone
  /\ ops \in {<<>>, <<"convert">>, <<"group">>}
  /\ \A i \in 1..Len(output) : Len(output[i]) >= 2
  /\ output' = groupConsecutiveChunks(output)
  /\ prev' = output
  /\ ops' = Append(ops, "group")
  /\ UNCHANGED <<input, err, window, serviceVars, accountVars>>

\* the intervals a request can ask to remove: any two instants, and one
RemoveWindows ==
  {<<s, e>> : s \in AlignedInstants \cup {2730}, e \in AlignedInstants \cup {2730}}
    \cup {<<2700>>}

\* removeTimeInterval(updatedIntervals, removeInterval) on a list of ranges
ApplyRemove(toRemove) ==
  /\ ops = <<>>
  /\ input \in GroupInputs
  /\ output' = removeTimeInterval(output, toRemove)
  /\ window' = toRemove
  /\ prev' = output
  /\ ops' = Append(ops, "remove")
  /\ UNCHANGED <<input, err, serviceVars, accountVars>>

HelperNext ==
  \/ ApplyConvert
  \/ ApplyGroup
  \/ \E toRemove \in RemoveWindows : ApplyRemove(toRemove)

SpecHelpers == HelperInit /\ [][HelperNext]_vars

(***************************************************************************)
(* Properties of the helpers.                                              *)
(***************************************************************************)
\* both endpoints on a quarter-hour instant (seconds included), start first
AlignedRange(iv) ==
  /\ Len(iv) = 2
  /\ iv[1] % chunkDuration = 0
  /\ iv[2] % chunkDuration = 0
  /\ iv[1] < iv[2]

ProperList(list) ==
  \A i \in 1..Len(list) : Len(list[i]) = 2 /\ list[i][1] < list[i][2]

BlockCount(iv) == (iv[2] - iv[1]) \div chunkDuration

\* the number of blocks of the intervals before interval i
RECURSIVE BlocksBefore(_, _)
BlocksBefore(list, i) ==
  IF i <= 1 THEN 0 ELSE BlocksBefore(list, i - 1) + BlockCount(list[i - 1])

\* C4: an aligned interval of D minutes (D a positive multiple of 15) gives
\* exactly D/15 blocks of exactly 15 minutes, the first at the interval's
\* start, each next one where the previous ended, the last at its end; the
\* blocks of a list of such intervals follow each other in input order.
C4_BlockCount ==
  (ops = <<"convert">> /\ \A i \in 1..Len(input) : AlignedRange(input[i]))
    => /\ err = ErrNone
       /\ Len(output) = BlocksBefore(input, Len(input) + 1)
       /\ \A i \in 1..Len(input) :
            LET iv == input[i]
                n == BlockCount(iv)
                off == BlocksBefore(input, i)
            IN /\ n >= 1
               /\ output[off + 1][1] = iv[1]
               /\ output[off + n][2] = iv[2]
               /\ \A k \in 1..n :
                    /\ Len(output[off + k]) = 2
                    /\ output[off + k][2] - output[off + k][1] = chunkDuration
               /\ \A k \in 1..(n - 1) :
                    output[off + k + 1][1] = output[off + k][2]

C4_Witness ==
  /\ ops = <<"convert">>
  /\ Len(input) = 2
  /\ AlignedRange(input[1]) /\ AlignedRange(input[2])
  /\ BlockCount(input[1]) = 2
  /\ Len(output) = 3

\* C5: whenever the conversion of one interval succeeds and emits blocks, the
\* last block ends exactly at the interval's end.
C5_LastBlockEndsAtIntervalEnd ==
  (ops = <<"convert">> /\ err = ErrNone /\ Len(input) = 1 /\ Len(output) > 0)
    => output[Len(output)][2] = input[1][2]

OffBoundary(iv) == Minute(iv[1]) % 15 # 0 \/ Minute(iv[2]) % 15 # 0

\* C6: when an interval of the list has a start or an end off the quarter
\* hour, and the intervals before it have their two endpoints, the conversion
\* fails with the boundary error of the first such interval and returns no
\* block, also when earlier intervals were valid.
C6_BoundaryRejection ==
  ops = <<"convert">>
    => \A i \in 1..Len(input) :
         ( /\ Len(input[i]) >= 2
           /\ OffBoundary(input[i])
           /\ \A j \in 1..(i - 1) :
                Len(input[j]) >= 2 /\ ~OffBoundary(input[j]) )
           => /\ err = (IF Minute(input[i][1]) % 15 # 0 THEN ErrStart ELSE ErrEnd)
              /\ output = <<>>

C6_Witness ==
  /\ ops = <<"convert">>
  /\ Len(input) = 2
  /\ AlignedRange(input[1])
  /\ input[2] = <<2700, 3000>>
  /\ err = ErrEnd
  /\ output = <<>>

\* C7 as stated: an interval that does not have exactly two endpoints fails
\* with the malformed-interval error.
C7_ExactlyTwoEndpoints ==
  (ops = <<"convert">> /\ Len(input) = 1 /\ Len(input[1]) # 2)
    => err = ErrMalformed

\* C7 as amended: the conversion fails with the malformed-interval error, and
\* returns no block, exactly when an interval with fewer than two endpoints
\* comes before any boundary violation; an interval with more than two
\* endpoints is converted from its first two.
C7_AtLeastTwoEndpoints ==
  ops = <<"convert">>
    => /\ err = ErrMalformed
            <=> \E i \in 1..Len(input) :
                  /\ Len(input[i]) < 2
                  /\ \A j \in 1..(i - 1) :
                       Len(input[j]) >= 2 /\ ~OffBoundary(input[j])
       /\ err = ErrMalformed => output = <<>>
       /\ (Len(input) = 1 /\ Len(input[1]) > 2 /\ ~OffBoundary(input[1]))
            => /\ err = ErrNone
               /\ output = walkChunks(input[1][1], input[1][2])

C7_Witness ==
  /\ ops = <<"convert">>
  /\ Len(input) = 2
  /\ AlignedRange(input[1])
  /\ Len(input[2]) = 1
  /\ err = ErrMalformed
  /\ output = <<>>

\* C8: the ranges grouped from any list of blocks are strictly ascending by
\* start, and each ends strictly before the next one starts.
C8_AscendingDisjoint ==
  (ops = <<"group">> /\ ProperList(input))
    => /\ ProperList(output)
       /\ \A k \in 1..(Len(output) - 1) :
            /\ output[k][1] < output[k + 1][1]
            /\ output[k][2] < output[k + 1][1]

C8_Witness ==
  /\ ops = <<"group">>
  /\ input = <<<<3600, 4500>>, <<2700, 3600>>, <<2700, 4500>>>>
  /\ output = <<<<2700, 4500>>>>

Endpoints(list) == UNION {{list[i][1], list[i][2]} : i \in 1..Len(list)}

Covers(list, t) == \E i \in 1..Len(list) : list[i][1] <= t /\ t < list[i][2]

\* the input blocks that lie inside range r
BlocksInside(list, r) ==
  {i \in 1..Len(list) : r[1] <= list[i][1] /\ list[i][2] <= r[2]}

\* C9: grouping keeps the coverage (an instant is in an output range exactly
\* when it is in an input block; the endpoints of both lists decide it for
\* every instant), and an output range starts at the least start and ends at
\* the greatest end of the input blocks inside it, which are all the blocks.
C9_CoveragePreserved ==
  (ops = <<"group">> /\ ProperList(input))
    => /\ \A t \in Endpoints(input) \cup Endpoints(output) :
            Covers(output, t) <=> Covers(input, t)
       /\ \A k \in 1..Len(output) :
            LET inside == BlocksInside(input, output[k]) IN
              /\ inside # {}
              /\ \E i \in inside : input[i][1] = output[k][1]
              /\ \E i \in inside : input[i][2] = output[k][2]
       /\ \A i \in 1..Len(input) :
            \E k \in 1..Len(output) : i \in BlocksInside(input, output[k])

C9_Witness ==
  /\ ops = <<"group">>
  /\ input = <<<<2700, 4500>>, <<2730, 3600>>>>
  /\ output = <<<<2700, 4500>>>>

PairwiseDisjoint(list) ==
  \A i, j \in 1..Len(list) :
    i # j => (list[i][2] <= list[j][1] \/ list[j][2] <= list[i][1])

\* the starts and ends of the maximal runs of touching ranges
RunStarts(list) ==
  {list[i][1] : i \in {i \in 1..Len(list) :
     ~\E j \in 1..Len(list) : list[j][1] < list[i][1] /\ list[i][1] <= list[j][2]}}

RunEnds(list) ==
  {list[i][2] : i \in {i \in 1..Len(list) :
     ~\E j \in 1..Len(list) : list[j][1] <= list[i][2] /\ list[i][2] < list[j][2]}}

Least(S) == CHOOSE x \in S : \A y \in S : x <= y

RECURSIVE Ascending(_)
Ascending(S) ==
  IF S = {} THEN <<>> ELSE <<Least(S)>> \o Ascending(S \ {Least(S)})

\* the ranges sorted by start, with those that touch merged into one
SortedMerged(list) ==
  LET starts == Ascending(RunStarts(list)) IN
    [k \in 1..Len(starts) |->
       <<starts[k], Least({e \in RunEnds(list) : e > starts[k]})>>]

C11_Idempotent ==
  (ops = <<"group", "group">> /\ ProperList(input))
    => /\ prev = groupConsecutiveChunks(input)
       /\ output = prev

C11_Witness ==
  /\ ops = <<"group", "group">>
  /\ input = <<<<3600, 4500>>, <<2700, 2730>>, <<2730, 4500>>>>
  /\ prev = <<<<2700, 4500>>>>
  /\ output = prev

\* the lists of at most MaxChunks blocks drawn from set S that hold every
\* block of S: its permutations, and those with a block repeated
ListingsOf(S) == {y \in SeqsUpTo(S, MaxChunks) : SeqRange(y) = S}

\* C12: the ranges grouped from a list of blocks depend only on the set of
\* its blocks: every permutation of the list, and every list that repeats
\* blocks of it, groups to the same ranges, also when blocks share a start.
C12_SetOnly ==
  (ops = <<"group">> /\ ProperList(input))
    => \A y \in ListingsOf(SeqRange(input)) : groupConsecutiveChunks(y) = output

C12_Witness ==
  /\ ops = <<"group">>
  /\ input = <<<<3600, 4500>>, <<2700, 4500>>, <<2700, 3600>>>>
  /\ Cardinality(ListingsOf(SeqRange(input))) = 6
  /\ output = <<<<2700, 4500>>>>

\* instant t lies in the removed interval
InWindow(w, t) == w[1] <= t /\ t < w[2]

\* what is left of range r outside interval w (start before end): nothing
\* when r is inside w, r when they share no instant, else its parts before
\* and after w
Surviving(r, w) ==
  IF w[1] <= r[1] /\ r[2] <= w[2] THEN <<>>
  ELSE IF r[2] <= w[1] \/ w[2] <= r[1] THEN <<r>>
  ELSE (IF r[1] < w[1] THEN <<<<r[1], w[1]>>>> ELSE <<>>)
         \o (IF w[2] < r[2] THEN <<<<w[2], r[2]>>>> ELSE <<>>)

RECURSIVE SurvivingAll(_, _, _)
SurvivingAll(list, w, i) ==
  IF i > Len(list)
  THEN <<>>
  ELSE Surviving(list[i], w) \o SurvivingAll(list, w, i + 1)

\* C13: removing an interval from a list of disjoint ranges leaves ranges
\* that cover exactly the instants of the list outside the interval (the
\* endpoints of the lists and of the interval decide it for every instant);
\* for an interval with its start before its end, a range inside it is
\* dropped, a range it overlaps in part is replaced by what is left of it
\* before and after, and a range it does not overlap is kept, in list order.
C13_Subtraction ==
  ( /\ ops = <<"remove">>
    /\ Len(window) = 2
    /\ ProperList(input)
    /\ PairwiseDisjoint(input) )
    => /\ ProperList(output)
       /\ \A t \in Endpoints(input) \cup Endpoints(output) \cup {window[1], window[2]} :
            Covers(output, t) <=> (Covers(input, t) /\ ~InWindow(window, t))
       /\ window[1] < window[2] => output = SurvivingAll(input, window, 1)

C13_Witness ==
  /\ ops = <<"remove">>
  /\ input = <<<<2700, 4500>>>>
  /\ window = <<2730, 3600>>
  /\ output = <<<<2700, 2730>>, <<3600, 4500>>>>

(***************************************************************************)
(* Properties of the service.                                              *)
(***************************************************************************)
Overlap(b, c) == b[1] < c[2] /\ c[1] < b[2]

\* C1: every stored block is exactly 15 minutes long, and no two distinct
\* blocks of one user overlap (the set of rows holds a block of a user once).
C1_ValidPartition ==
  /\ \A r \in availability : r.end_time - r.start_time = chunkDuration
  /\ \A r, q \in availability :
       (r.user_id = q.user_id /\ BlockOf(r) # BlockOf(q))
         => ~Overlap(BlockOf(r), BlockOf(q))

\* an update of the user that has run its DELETE and has not committed, with
\* no other write to the user's rows committed since the request began
Replacing(p, user) ==
  /\ tx[p].pc \in {"delete_wait", "insert", "commit"}
  /\ tx[p].user = user
  /\ tx[p].writers = {}

\* C2: a get that reads while an update of the same user is between its
\* DELETE and its Commit returns the ranges of the complete block set the
\* update found (the rows it deleted or waits to delete), never the emptied
\* or partly re-inserted set.
C2_GetSeesWholeSet ==
  (response.op = "get" /\ response.status = 200)
    => \A p \in Procs :
         Replacing(p, response.user)
           => response.ranges =
                groupConsecutiveChunks(OrderByStart(tx[p].deleted \cup tx[p].waitFor))

C2_Witness ==
  /\ response.op = "get" /\ response.status = 200
  /\ \E p \in Procs :
       /\ Replacing(p, response.user)
       /\ tx[p].pc = "insert"
       /\ tx[p].idx = 1
       /\ Len(tx[p].chunks) = 2
       /\ tx[p].deleted = {<<3600, 4500>>}
       /\ response.ranges = <<<<3600, 4500>>>>

\* C3: when an update commits and the only other writes that committed to
\* the user's rows while it was in flight were updates, the stored blocks of
\* the user are exactly the final blocks of the update that committed now.
C3_LastCommitWins ==
  (response.op = "update" /\ response.status = 200 /\ response.writers = {"update"})
    => StoredBlocks(availability, response.user)
         = SeqRange(convertIntervalsIntoChunks(response.ranges).chunks)

\* C14: the ranges that a successful update returns are merged: each has its
\* start before its end, they ascend, and each ends strictly before the next
\* one starts, whatever the add and remove lists of the request.
C14_ReturnsMergedRanges ==
  (response.op = "update" /\ response.status = 200)
    => /\ ProperList(response.ranges)
       /\ \A k \in 1..(Len(response.ranges) - 1) :
            response.ranges[k][2] < response.ranges[k + 1][1]

\* C15: a get of user U that is the next request after a successful update
\* of U returns exactly the list of ranges that the update returned.
C15_GetReturnsUpdateRanges ==
  [][ ( /\ response.op = "update" /\ response.status = 200
        /\ response'.op = "get" /\ response'.status = 200
        /\ response'.user = response.user )
        => response'.ranges = response.ranges ]_vars

RowsOf(rows, user) == {r \in rows : r.user_id = user}

\* the blocks of the ranges of a request
SubmittedBlocks(ranges) == SeqRange(convertIntervalsIntoChunks(ranges).chunks)

\* a create has just answered 201
Created == response'.op = "create" /\ response'.status = 201

CoveredBy(b, ranges) ==
  \E i \in 1..Len(ranges) :
    Len(ranges[i]) >= 2 /\ ranges[i][1] <= b[1] /\ b[2] <= ranges[i][2]

\* C17: after a successful create, every stored block of the user that the
\* submitted ranges cover has matched = false and every other block of the
\* user that was stored before is the row it was; after a successful update
\* every stored block of the user has matched = false.
C17_MatchedReset ==
  /\ [][ Created =>
           \A r \in RowsOf(availability', response'.user) :
             IF CoveredBy(BlockOf(r), response'.ranges)
             THEN ~r.matched
             ELSE BlockOf(r) \in StoredBlocks(availability, response'.user)
                    => r \in availability ]_vars
  /\ []( (response.op = "update" /\ response.status = 200)
           => \A r \in RowsOf(availability, response.user) : ~r.matched )

\* C18: when a block write of a create fails (the first or a later one), the
\* create answers database_error and the committed rows are those from before
\* the create: no block it wrote shows to the requests that follow.
C18_CreateFailureAtomic ==
  [][ (response'.op = "create" /\ response'.failedAt >= 1)
        => /\ response'.status = 500
           /\ availability' = availability ]_vars

C18_Witness ==
  /\ response.op = "create" /\ response.status = 500
  /\ response.user = "u1"
  /\ response.failedAt = 2
  /\ RowsOf(availability, "u1") = {Row("u1", <<2700, 3600>>, TRUE)}

\* an update has just answered database_error after a statement of its
\* replace step failed
UpdateFailed ==
  /\ response'.op = "update" /\ response'.status = 500
  /\ response'.failedAt >= 1

\* C19: when a statement of the replace step of an update fails (the DELETE,
\* an insert or the Commit), the committed rows do not change, and the user's
\* stored blocks are those the update read and its DELETE found.
C19_ReplaceFailureAtomic ==
  [][ UpdateFailed
        => /\ availability' = availability
           /\ response'.failedAt >= 2
                => StoredBlocks(availability', response'.user) = tx[Worker].deleted ]_vars

C19_Witness ==
  /\ response.op = "update" /\ response.status = 500
  /\ response.user = "u1"
  /\ response.failedAt = 3
  /\ RowsOf(availability, "u1") = {Row("u1", <<2700, 3600>>, TRUE)}

\* C20: a create or an update that answers with a validation error (400: the
\* body names another user, no ranges, a malformed or off-boundary interval,
\* no resulting block) or is refused (403: the caller is neither the user nor
\* an admin; 401: no caller) leaves the rows of every user as they were.
C20_ErrorsWriteNothing ==
  [][ ( /\ response'.op \in {"create", "update"}
        /\ response'.status \in {400, 401, 403} )
        => availability' = availability ]_vars

C20_Witness ==
  /\ response.op = "create" /\ response.status = 403
  /\ response.user = "u2"
  /\ RowsOf(availability, "u2") = {Row("u2", <<2700, 3600>>, TRUE)}
  /\ RowsOf(availability, "u1") # {}

\* every range has its two endpoints on the quarter hour and its start is
\* not before its end
NoDuration(ranges) ==
  \A i \in 1..Len(ranges) :
    /\ Len(ranges[i]) = 2
    /\ ranges[i][1] % chunkDuration = 0
    /\ ranges[i][2] % chunkDuration = 0
    /\ ranges[i][1] >= ranges[i][2]

Refused(op, error) ==
  /\ response'.op = op
  /\ response'.status = 400
  /\ response'.error = error

\* C21: a create by a permitted caller answers no_intervals when its range
\* list is empty and no_valid_intervals when its non-empty list has only
\* ranges whose start is not before their end; in both cases the rows stay as
\* they were.
C21_EmptyCreateRefused ==
  [][ \A caller \in Users, userID \in Users, ranges \in RequestLists :
        ( /\ ~Forbidden(caller, userID)
          /\ NoDuration(ranges)
          /\ CreateAvailability(caller, userID, userID, ranges) )
          => /\ Refused("create", IF Len(ranges) = 0
                                   THEN "no_intervals"
                                   ELSE "no_valid_intervals")
             /\ availability' = availability ]_vars

C21_Witness ==
  /\ response.op = "create" /\ response.status = 400
  /\ response.error = "no_valid_intervals"
  /\ response.user = "u1"
  /\ StoredBlocks(availability, "u1") = {<<2700, 3600>>}

\* what a get of the user returns from the rows
GetRanges(rows, user) == groupConsecutiveChunks(getAvailability(rows, user))

\* C22: a get of a user without stored blocks answers 200 with no range;
\* and when a get of user U has returned ranges G and the next request is a
\* successful create for U of ranges R, a get of U then returns the ranges
\* of G and R together, sorted by start with those that touch or overlap
\* merged.
C22_GetAfterCreates ==
  /\ []( (response.op = "get" /\ response.status = 200
            /\ RowsOf(availability, response.user) = {})
           => response.ranges = <<>> )
  /\ [][ ( /\ response.op = "get" /\ response.status = 200
           /\ Created
           /\ response'.user = response.user )
           => GetRanges(availability', response.user)
                = SortedMerged(response.ranges \o response'.ranges) ]_vars

\* C23: a batch request of a caller who is not admin, with at least one user
\* ID that is not the caller's own, answers 403 forbidden with no entry for
\* any ID, reads no row and changes none.
C23_BatchForbiddenWhole ==
  [][ \A caller \in Users, userIDs \in BatchLists :
        ( /\ Role[caller] # "admin"
          /\ \E i \in 1..Len(userIDs) : userIDs[i] # caller
          /\ GetBatchAvailability(caller, userIDs) )
          => /\ response'.status = 403
             /\ response'.error = "forbidden"
             /\ response'.entries = <<>>
             /\ response'.reads = <<>>
             /\ availability' = availability ]_vars

C23_Witness ==
  /\ response.op = "getBatch" /\ response.status = 403
  /\ response.user = "u1"
  /\ response.asked = <<"u1", "u2">>
  /\ response.entries = <<>>
  /\ StoredBlocks(availability, "u1") # {}
  /\ StoredBlocks(availability, "u2") # {}

\* C24: a batch request that answers 200 returns one entry for each element
\* of the requested user IDs, in their order, a repeated ID giving a repeated
\* entry, and each entry holds the ranges a get of that ID returns from the
\* same rows.
C24_BatchMatchesGet ==
  [][ \A caller \in Users, userIDs \in BatchLists :
        (GetBatchAvailability(caller, userIDs) /\ response'.status = 200)
          => /\ Len(response'.entries) = Len(userIDs)
             /\ \A i \in 1..Len(userIDs) :
                  /\ response'.entries[i].user_id = userIDs[i]
                  /\ response'.entries[i].available_time_intervals
                       = GetRanges(availability, userIDs[i]) ]_vars

C24_Witness ==
  /\ response.op = "getBatch" /\ response.status = 200
  /\ response.user = "u2"
  /\ response.asked = <<"u2", "u1">>
  /\ response.entries =
       << [user_id |-> "u2", available_time_intervals |-> <<<<2700, 3600>>>>],
          [user_id |-> "u1", available_time_intervals |-> <<<<2700, 4500>>>>] >>

\* C25: the stored blocks of a user change only in a step that answers a
\* create or an update for that user: no request for user A changes the
\* blocks of another user B, also while requests of A and B interleave.
C25_OtherUsersUntouched ==
  [][ \A other \in Users :
        StoredBlocks(availability', other) # StoredBlocks(availability, other)
          => /\ response'.op \in {"create", "update"}
             /\ response'.user = other ]_vars

C25_Witness ==
  /\ response.op = "update" /\ response.status = 200
  /\ response.user = "u1"
  /\ StoredBlocks(availability, "u1") = {}
  /\ tx["p2"].pc = "insert" /\ tx["p2"].user = "u2"
  /\ tx["p2"].deleted = {<<2700, 3600>>, <<3600, 4500>>}
  /\ StoredBlocks(availability, "u2") = {<<2700, 3600>>, <<3600, 4500>>}

\* the blocks of the quarter-hour grid
GridBlocks == {<<t, t + chunkDuration>> : t \in AlignedInstants}

\* ranges with two endpoints on the quarter hour, to the second
OnQuarters(ranges) ==
  \A i \in 1..Len(ranges) :
    /\ Len(ranges[i]) = 2
    /\ ranges[i][1] % chunkDuration = 0
    /\ ranges[i][2] % chunkDuration = 0

\* the blocks stored before without those a remove range covers, united with
\* the grid blocks an add range covers
AfterChanges(before, add, remove) ==
  {b \in before : ~CoveredBy(b, remove)}
    \cup {b \in GridBlocks : CoveredBy(b, add)}

\* C26: an update whose add and remove ranges have two endpoints on the
\* quarter hour computes, and when it succeeds stores, the blocks stored
\* before minus every block a remove range covers, united with every block
\* an add range covers.
C26_UpdateSetAlgebra ==
  /\ [][ \A add \in RequestLists, remove \in SeqRemoveLists :
           ( /\ OnQuarters(add) /\ OnQuarters(remove)
             /\ UpdateAvailability(Worker, "u1", "u1", "u1", add, remove) )
             => /\ tx'[Worker].pc = "delete"
                /\ SeqRange(tx'[Worker].chunks)
                     = AfterChanges(StoredBlocks(availability, "u1"), add, remove) ]_vars
  /\ [][ (response'.op = "update" /\ response'.status = 200)
           => StoredBlocks(availability', response'.user)
                = SeqRange(tx[Worker].chunks) ]_vars


\* the list without its i-th entry
Without(list, i) == SubSeq(list, 1, i - 1) \o SubSeq(list, i + 1, Len(list))

\* C27: a remove entry of an update that has not exactly two endpoints is a
\* no-op. Whatever the user has stored, the update computes the same outcome
\* (the same refusal, or the same ranges to return and the same chunks to
\* store) as the same request without that entry; an update that skipped such
\* an entry and runs to its commit answers 200 with those ranges and leaves
\* exactly those chunks stored.
C27_WrongArityIgnored ==
  /\ [](\A add \in RequestLists, remove \in SeqRemoveLists :
         \A i \in 1..Len(remove) :
           Len(remove[i]) # 2
             => LET current == getAvailability(availability, "u1")
                IN applyChanges(current, add, remove)
                     = applyChanges(current, add, Without(remove, i)))
  /\ [][ (tx[Worker].pc = "idle" /\ tx'[Worker].pc = "delete")
           => \E add \in RequestLists, remove \in SeqRemoveLists :
                LET changed == applyChanges(getAvailability(availability, tx'[Worker].user),
                                            add, remove)
                IN /\ skippedEntries(remove) = tx'[Worker].skipped
                   /\ changed.error = ""
                   /\ tx'[Worker].ranges = changed.ranges
                   /\ tx'[Worker].chunks = changed.chunks ]_vars
  /\ [][ (response'.op = "update" /\ response'.status = 200)
           => /\ response'.ranges = tx[Worker].ranges
              /\ response'.skipped = tx[Worker].skipped
              /\ StoredBlocks(availability', response'.user)
                   = SeqRange(tx[Worker].chunks) ]_vars

\* an update with an entry of one endpoint before a real removal answered
\* 200: the real removal took its block and the other stored block is kept
C27_Witness ==
  /\ response.op = "update"
  /\ response.status = 200
  /\ response.skipped = 1
  /\ response.ranges = <<<<3600, 4500>>>>
  /\ StoredBlocks(availability, response.user) = {<<3600, 4500>>}


\* C28: from a state with an admin, after any sequence and any interleaving
\* of UpdateUser role changes, two admins demoting each other at the same
\* time included, a user with role admin remains.
C28_AdminRemains == \E a \in Accounts : users[a] = "admin"

\* C29: a request with a valid token of a principal without an active user
\* row reaches a handler only as POST /v1/user/{user_id}, where it reaches
\* CreateUser; for every other method or path the middleware answers 403 and
\* no handler runs.
C29_NewUserOnlyCreates ==
  [][ \A principal \in Accounts, method \in Methods, path \in Paths :
      \A body \in BodiesFor(Route(method, path)) :
        ( /\ users[principal] = NoRecord
          /\ Request(Worker, principal, method, path, FALSE, body) )
          => IF method = "POST" /\ \E id \in Accounts : path = UserPath(id)
             THEN "CreateUser" \in {returned'.handler, calls'[Worker].handler}
             ELSE /\ returned'.handler = "none"
                  /\ returned'.status = 403
                  /\ calls'[Worker] = IdleCall ]_vars

\* C30: every transaction that CreateUser, UpdateUser or CreateClass begins is
\* committed or rolled back when the handler returns, on every return path.
C30_TransactionsEnded ==
  /\ returned.txn \in {"none", "committed", "rolledback"}
  /\ leaks = {}

====
